---- MODULE Spec2Model ----
(***************************************************************************)
(* asciicast2movie / tty2img                                               *)
(*                                                                         *)
(* Two programs are modelled:                                              *)
(*   - the frame sequencer of asciicast2movie.py: asciicast2video, which   *)
(*     normalises its input, and render_asciicast_frames, which feeds the  *)
(*     frames to the terminal emulator and produces timed image clips;     *)
(*   - the rasterizer tty2img of tty2img.py, which walks the emulator's    *)
(*     sparse cell buffer and issues the drawing calls of one image.       *)
(*                                                                         *)
(* Time is counted in whole ticks.  All time values of the model are       *)
(* integers and the blink values are even, so blinkingCursor/2 is a whole  *)
(* number of ticks and the arithmetic of the code is exact.                *)
(***************************************************************************)
EXTENDS Integers, Sequences, FiniteSets, TLC

VARIABLES
    \* ---- arguments of asciicast2video / render_asciicast_frames
    inputForm,          \* which of the four accepted forms inputData has
    inputLines,         \* the lines (or list items) of the input, header included
    width, height,      \* the width / height arguments, 0 when not set (None)
    blinkingCursor,     \* 0 when not set (None)
    lastFrameDuration,
    \* ---- state of the frame sequencer
    pc,                 \* position in asciicast2video / render_asciicast_frames
    err,                \* the exception raised, "" when none
    inputData,          \* the list of (time, content) frames being rendered
    screenSize,         \* <<columns, lines>> given to pyte.Screen
    renderOptions,      \* the options passed on to tty2img
    nextFrameStartTimes,
    i,                  \* index of the frame of the for loop (1-based)
    startTime, endTime, cursor, cursorOptions,
    clips,              \* the list of image clips produced so far
    fed,                \* the frames fed to the emulator so far, in order
    \* ---- the emulated screen and the rasterizer
    freetype,           \* whether the fclist / freetype modules were imported
    buffer,             \* screen.buffer: rows and cells in dictionary order
    cur,                \* screen.cursor: [x, y, hidden]
    pen,                \* the attributes the emulator gives the next character
    ops,                \* number of emulator operations applied so far
    call,               \* the arguments of the latest tty2img call
    image               \* the drawing calls of the latest tty2img call

seqVars  == <<inputForm, inputLines, width, height, blinkingCursor,
              lastFrameDuration, pc, err, inputData, screenSize,
              nextFrameStartTimes, i, startTime, endTime, cursor,
              cursorOptions, clips, fed>>
envVars  == <<renderOptions, freetype>>
rastVars == <<buffer, cur, pen, ops, call, image>>
vars     == <<seqVars, envVars, rastVars>>

----------------------------------------------------------------------------
(* Bounds of the model *)

MaxFrames == 3      \* longest frame list
MaxTime == 3        \* largest frame timestamp, in ticks
MaxDiverge == 3     \* passes followed of a loop that moves away from its end

\* blinkingCursor values: a negative one, not set, and two periods
BlinkValues == {-2, 0, 2, 4}
LastFrameDurations == {0, 3, 5}

\* One operation the emulator carries out while it is fed: a character to
\* draw, a cursor move (CUP), a change of attributes (SGR), or the cursor
\* hidden / shown (ESC[?25l / ESC[?25h).
EmuOp(op, ch, x, y, p) == [op |-> op, ch |-> ch, x |-> x, y |-> y, pen |-> p]
DrawOf(ch)   == EmuOp("draw", ch, 0, 0, "")
CupOf(x, y)  == EmuOp("cup", "", x, y, "")
SgrOf(p)     == EmuOp("sgr", "", 0, 0, p)
HideOf       == EmuOp("hide", "", 0, 0, "")
ShowOf       == EmuOp("show", "", 0, 0, "")

\* A frame's content (frame[-1]), as the operations it makes the emulator
\* carry out: the text "a", ESC[?25l, or ESC[?25h.
Contents == {<<DrawOf("a")>>, <<HideOf>>, <<ShowOf>>}

Frames == [t : 0..MaxTime, c : Contents]

Nondecreasing(s) == \A k \in 1..(Len(s) - 1) : s[k].t <= s[k + 1].t

FrameLists ==
    UNION { {s \in [1..n -> Frames] : Nondecreasing(s)} : n \in 0..MaxFrames }

----------------------------------------------------------------------------
(* The terminal screen the rasterizer reads *)

MaxOps == 3         \* emulator operations applied before the screen is drawn
Columns == 3        \* screen.columns
ScreenLines == 2    \* screen.lines

\* Characters the emulator can hold: "a" is in the configured fonts; "W" is a
\* double-width character found only in fallback families; "s" is a
\* single-width symbol found in one fallback family; "?" is in no font.
\* "" is the stub the emulator stores after a double-width character.
Chars == {"a", "W", "s", "?"}
WcWidth(ch) == IF ch = "W" THEN 2 ELSE 1

\* The character attributes in force (pyte's cursor.attrs), by name
PenNames == {"plain", "colour", "reverse", "colourReverse"}
PenAttrs(p) ==
    CASE p = "plain" ->
           [fg |-> "default", bg |-> "default", reverse |-> FALSE,
            bold |-> FALSE, italics |-> FALSE,
            underscore |-> FALSE, strikethrough |-> FALSE]
      [] p = "colour" ->
           [fg |-> "red", bg |-> "0000ee", reverse |-> FALSE,
            bold |-> TRUE, italics |-> FALSE,
            underscore |-> TRUE, strikethrough |-> FALSE]
      [] p = "reverse" ->
           [fg |-> "default", bg |-> "default", reverse |-> TRUE,
            bold |-> FALSE, italics |-> TRUE,
            underscore |-> FALSE, strikethrough |-> TRUE]
      [] p = "colourReverse" ->
           [fg |-> "red", bg |-> "0000ee", reverse |-> TRUE,
            bold |-> TRUE, italics |-> TRUE,
            underscore |-> FALSE, strikethrough |-> FALSE]

\* the arguments of a tty2img call that has not been made
NoCall == [made |-> FALSE, showCursor |-> FALSE, fallbackFonts |-> <<>>,
           logFunction |-> FALSE, freetype |-> FALSE]

\* the arguments of a tty2img call: showCursor, the render options, and
\* whether the glyph lookup modules are there
CallArgs(showCursor, options, ft) ==
    [made |-> TRUE, showCursor |-> showCursor,
     fallbackFonts |-> options.fallbackFonts,
     logFunction |-> options.logFunction, freetype |-> ft]

\* tty2img's defaults: two fallback families, no logging
DefaultOptions == [fallbackFonts |-> <<"F1", "F2">>, logFunction |-> FALSE]

\* index of row y in the buffer's dictionary order, 0 when the row is absent
RowIndex(buf, y) ==
    IF \E r \in 1..Len(buf) : buf[r].y = y
    THEN CHOOSE r \in 1..Len(buf) : buf[r].y = y
    ELSE 0

\* index of column x in a row's dictionary order, 0 when the cell is absent
CellIndex(cells, x) ==
    IF \E k \in 1..Len(cells) : cells[k].x = x
    THEN CHOOSE k \in 1..Len(cells) : cells[k].x = x
    ELSE 0

\* line[x] = cell: an assignment to an existing key keeps its place in the
\* dictionary order, a new key goes to the end
SetCell(cells, cell) ==
    IF CellIndex(cells, cell.x) # 0
    THEN [cells EXCEPT ![CellIndex(cells, cell.x)] = cell]
    ELSE Append(cells, cell)

\* self.buffer[y] of a defaultdict: the row is created when it is absent
WithRow(buf, y) ==
    IF RowIndex(buf, y) # 0 THEN buf ELSE Append(buf, [y |-> y, cells |-> <<>>])

\* pyte Screen.draw of one character with the attributes p at (x, y)
DrawChar(buf, columns, x, y, ch, p) ==
    LET b  == WithRow(buf, y)
        r  == RowIndex(b, y)
        c1 == SetCell(b[r].cells, [x |-> x, data |-> ch, pen |-> p])
        c2 == IF WcWidth(ch) = 2 /\ x + 1 < columns
              THEN SetCell(c1, [x |-> x + 1, data |-> "", pen |-> p])
              ELSE c1
    IN [b EXCEPT ![r].cells = c2]

\* the screen the emulator writes and tty2img reads
Screen(buf, c, p) == [buffer |-> buf, cur |-> c, pen |-> p]

FreshScreen == Screen(<<>>, [x |-> 0, y |-> 0, hidden |-> FALSE], "plain")

Min(a, b) == IF a < b THEN a ELSE b

\* drawing at the right edge of the last line makes the emulator scroll,
\* which is not followed
NeedsScroll(scr, size, o) ==
    o.op = "draw" /\ scr.cur.x = size[1] /\ scr.cur.y + 1 >= size[2]

\* the screen after the emulator has carried out one operation; a character
\* drawn at the right edge first wraps to the start of the next line, a
\* cursor move is kept inside the screen
ApplyOp(scr, size, o) ==
    CASE o.op = "draw" ->
           LET x == IF scr.cur.x = size[1] THEN 0 ELSE scr.cur.x
               y == IF scr.cur.x = size[1] THEN scr.cur.y + 1 ELSE scr.cur.y
           IN Screen(DrawChar(scr.buffer, size[1], x, y, o.ch, scr.pen),
                     [scr.cur EXCEPT !.x = Min(x + WcWidth(o.ch), size[1]),
                                     !.y = y],
                     scr.pen)
      [] o.op = "cup" ->
           Screen(scr.buffer,
                  [scr.cur EXCEPT !.x = Min(o.x, size[1] - 1),
                                  !.y = Min(o.y, size[2] - 1)],
                  scr.pen)
      [] o.op = "sgr"  -> Screen(scr.buffer, scr.cur, o.pen)
      [] o.op = "hide" ->
           Screen(scr.buffer, [scr.cur EXCEPT !.hidden = TRUE], scr.pen)
      [] o.op = "show" ->
           Screen(scr.buffer, [scr.cur EXCEPT !.hidden = FALSE], scr.pen)

\* stream.feed(content): the screen after the operations of the content
RECURSIVE Feed(_, _, _)
Feed(scr, size, content) ==
    IF content = <<>> THEN scr
    ELSE Feed(ApplyOp(scr, size, Head(content)), size, Tail(content))

\* no operation of the content makes the emulator scroll
RECURSIVE FeedFollowed(_, _, _)
FeedFollowed(scr, size, content) ==
    IF content = <<>> THEN TRUE
    ELSE /\ ~NeedsScroll(scr, size, Head(content))
         /\ FeedFollowed(ApplyOp(scr, size, Head(content)), size, Tail(content))

\* stream.feed of one operation on the live screen, before tty2img is called
FeedOne(o) ==
    /\ ~call.made /\ ops < MaxOps
    /\ ~NeedsScroll(Screen(buffer, cur, pen), screenSize, o)
    /\ LET scr == ApplyOp(Screen(buffer, cur, pen), screenSize, o)
       IN /\ buffer' = scr.buffer
          /\ cur' = scr.cur
          /\ pen' = scr.pen
    /\ ops' = ops + 1
    /\ UNCHANGED <<call, image>>
    /\ UNCHANGED seqVars
    /\ UNCHANGED envVars

\* the emulator draws a character at the cursor
Draw(ch) == FeedOne(DrawOf(ch))

\* the emulator moves the cursor (CUP)
CursorTo(x, y) == <<x, y>> # <<cur.x, cur.y>> /\ FeedOne(CupOf(x, y))

\* the emulator changes the character attributes (SGR)
SetPen(p) == p # pen /\ FeedOne(SgrOf(p))

\* the emulator hides or shows the cursor (DECTCEM)
ToggleCursor == FeedOne(IF cur.hidden THEN ShowOf ELSE HideOf)

----------------------------------------------------------------------------
(* The rasterizer: tty2img.  The image is the list of the drawing calls, in *)
(* the order made; antialiasing is left at its default (no scaling).        *)

MarginSize == 5     \* marginSize
CharWidth == 10     \* normalFont[0].getsize('X')[0]
CharHeight == 20    \* sum(normalFont[0].getmetrics()) + lineSpace

FgDefaultColor == "#00ff00"
BgDefaultColor == "black"

\* ImageColor.colormap, as far as the colours of the model go
Colormap == {"black", "red"}

\* the colours of the model that start with "#"
HashColors == {"#00ff00", "#0000ee"}

\* _convertColor
ConvertColor(color) ==
    IF color \notin HashColors /\ color \notin Colormap
    THEN "#" \o color
    ELSE color

\* a slip: the colours are not swapped for the cell under the cursor
CellColorsNoCursorSwap(attrs, atCursor) ==
    LET bg0 == IF attrs.bg # "default" THEN attrs.bg ELSE BgDefaultColor
        fg0 == IF attrs.fg # "default" THEN attrs.fg ELSE FgDefaultColor
        bg1 == IF attrs.reverse THEN fg0 ELSE bg0
        fg1 == IF attrs.reverse THEN bg0 ELSE fg0
    IN [bg |-> ConvertColor(bg1), fg |-> ConvertColor(fg1)]

\* lines 132-142: the colours a cell is drawn with; atCursor is
\* showCursor and line == screen.cursor.y and char == screen.cursor.x
CellColors(attrs, atCursor) ==
    LET bg0 == IF attrs.bg # "default" THEN attrs.bg ELSE BgDefaultColor
        fg0 == IF attrs.fg # "default" THEN attrs.fg ELSE FgDefaultColor
        bg1 == IF attrs.reverse THEN fg0 ELSE bg0
        fg1 == IF attrs.reverse THEN bg0 ELSE fg0
        bg2 == IF atCursor THEN fg1 ELSE bg1
        fg2 == IF atCursor THEN bg1 ELSE fg1
    IN [bg |-> ConvertColor(bg2), fg |-> ConvertColor(fg2)]

\* lines 148-155
SelectFont(attrs) ==
    CASE attrs.bold /\ attrs.italics -> "boldItalicsFont"
      [] attrs.bold                  -> "boldFont"
      [] attrs.italics               -> "italicsFont"
      [] OTHER                       -> "normalFont"

\* font[1].get_char_index(cData.data) is not 0: the four configured fonts
\* are one family and hold the same characters
HasGlyph(font, ch) == ch = "a"

\* the fallback families that can be configured
Families == {"F1", "F2"}

\* fclist.fclist(family=fname, charset=...): the font files of the family
\* that hold the character
Fclist(fname, ch) ==
    CASE fname = "F1" /\ ch = "W"        -> <<"F1-Regular.ttf", "F1-Bold.ttf">>
      [] fname = "F2" /\ ch \in {"W", "s"} -> <<"F2-Regular.ttf">>
      [] OTHER                           -> <<>>

\* font[0].getsize(cData.data)[0] for a fallback font file
GlyphWidth(file, ch) ==
    CASE ch = "W" /\ file = "F2-Regular.ttf" -> 17
      [] ch = "W"                            -> 20
      [] OTHER                               -> 8

\* a slip: the families are searched from the last to the first
RECURSIVE FallbackFontLastFirst(_, _)
FallbackFontLastFirst(fallbackFonts, ch) ==
    IF fallbackFonts = <<>> THEN [found |-> FALSE, file |-> ""]
    ELSE LET n == Len(fallbackFonts) IN
         IF Fclist(fallbackFonts[n], ch) # <<>>
         THEN [found |-> TRUE, file |-> Head(Fclist(fallbackFonts[n], ch))]
         ELSE FallbackFontLastFirst(SubSeq(fallbackFonts, 1, n - 1), ch)

\* lines 160-168: the first font file of the first family that holds ch
RECURSIVE FallbackFont(_, _)
FallbackFont(fallbackFonts, ch) ==
    IF fallbackFonts = <<>> THEN [found |-> FALSE, file |-> ""]
    ELSE IF Fclist(Head(fallbackFonts), ch) # <<>>
         THEN [found |-> TRUE, file |-> Head(Fclist(Head(fallbackFonts), ch))]
         ELSE FallbackFont(Tail(fallbackFonts), ch)

\* lines 157-171: the font a cell is drawn with, the extra width it takes,
\* and whether the missing glyph is logged
GlyphChoice(attrs, ch, args) ==
    LET font == SelectFont(attrs)
        f    == FallbackFont(args.fallbackFonts, ch)
        w    == GlyphWidth(f.file, ch) - CharWidth
    IN IF args.freetype /\ ~HasGlyph(font, ch)
       THEN IF f.found
            THEN [font |-> f.file, extraWidth |-> IF w > 0 THEN w ELSE 0,
                  log |-> FALSE]
            ELSE [font |-> font, extraWidth |-> 0, log |-> args.logFunction]
       ELSE [font |-> font, extraWidth |-> 0, log |-> FALSE]

\* one drawing (or logging) call; line and col name the cell it is made for
DrawOp(op, x, y, fill, data, font, line, col) ==
    [op |-> op, x |-> x, y |-> y, fill |-> fill, data |-> data,
     font |-> font, line |-> line, col |-> col]

\* lines 131-181: the calls made for one occupied cell, drawn at (px, py)
CellOps(cell, line, px, py, showCursor, scr, args) ==
    LET attrs  == PenAttrs(cell.pen)
        colors == CellColors(attrs,
                     showCursor /\ line = scr.y /\ cell.x = scr.x)
        g      == GlyphChoice(attrs, cell.data, args)
    IN (IF colors.bg # BgDefaultColor
        THEN <<DrawOp("background", px, py, colors.bg, "", "", line, cell.x)>>
        ELSE <<>>)
       \o (IF g.log
           THEN <<DrawOp("log", 0, 0, "", cell.data, "", line, cell.x)>>
           ELSE <<>>)
       \o (IF attrs.underscore
           THEN <<DrawOp("underscore", px, py + CharHeight - 1, colors.fg,
                         "", "", line, cell.x)>>
           ELSE <<>>)
       \o (IF attrs.strikethrough
           THEN <<DrawOp("strikethrough", px, py + (CharHeight \div 2),
                         colors.fg, "", "", line, cell.x)>>
           ELSE <<>>)
       \o <<DrawOp("text", px, py, colors.fg, cell.data, g.font, line, cell.x)>>

\* lines 124-184: the cells of a row in dictionary order, from the k-th on,
\* with point[0] = px; gives the calls made and point[0] after the row
RECURSIVE DrawCells(_, _, _, _, _, _, _, _)
DrawCells(cells, k, line, px, py, showCursor, scr, args) ==
    IF k > Len(cells) THEN [img |-> <<>>, px |-> px]
    ELSE IF cells[k].data = ""
    THEN DrawCells(cells, k + 1, line, px, py, showCursor, scr, args)
    ELSE LET g    == GlyphChoice(PenAttrs(cells[k].pen), cells[k].data, args)
             rest == DrawCells(cells, k + 1, line,
                               px + CharWidth + g.extraWidth, py,
                               showCursor, scr, args)
         IN [img |-> CellOps(cells[k], line, px, py, showCursor, scr, args)
                     \o rest.img,
             px  |-> rest.px]

\* the loop variable char when no inner loop has run yet
NoChar == -1

\* lines 186-189: the cursor drawn after a row that has no cell at the
\* cursor's column; char is the last column the inner loops went through
CursorOp(row, px, py, char, showCursor, scr) ==
    IF showCursor /\ row.y = scr.y /\ CellIndex(row.cells, scr.x) = 0
    THEN IF char = NoChar
         THEN <<DrawOp("UnboundLocalError", 0, 0, "", "", "", row.y, scr.x)>>
         ELSE <<DrawOp("cursor", px + (scr.x - char - 1) * CharWidth, py,
                       FgDefaultColor, "", "", row.y, scr.x)>>
    ELSE <<>>

\* lines 121-189: the rows of the buffer in dictionary order, from the r-th
RECURSIVE DrawRows(_, _, _, _, _, _)
DrawRows(buf, r, char, showCursor, scr, args) ==
    IF r > Len(buf) THEN <<>>
    ELSE LET row  == buf[r]
             py   == row.y * CharHeight + MarginSize
             done == DrawCells(row.cells, 1, row.y, MarginSize, py,
                               showCursor, scr, args)
             ch   == IF row.cells = <<>> THEN char
                     ELSE row.cells[Len(row.cells)].x
             cop  == CursorOp(row, done.px, py, ch, showCursor, scr)
         IN done.img \o cop \o
            (IF cop # <<>> /\ cop[1].op = "UnboundLocalError" THEN <<>>
             ELSE DrawRows(buf, r + 1, ch, showCursor, scr, args))

\* tty2img(screen, showCursor=..., fallbackFonts=..., logFunction=...)
Tty2img(buf, scr, args) ==
    DrawRows(buf, 1, NoChar, args.showCursor /\ ~scr.hidden, scr, args)

\* the fallbackFonts arguments tried
FallbackLists == {<<>>, <<"F1">>, <<"F1", "F2">>, <<"F2", "F1">>}

\* one call of tty2img on the screen as it stands
Render(showCursor, fallbackFonts, logFunction) ==
    /\ ~call.made
    /\ call' = CallArgs(showCursor,
                        [fallbackFonts |-> fallbackFonts,
                         logFunction |-> logFunction], freetype)
    /\ image' = Tty2img(buffer, cur, call')
    /\ UNCHANGED <<buffer, cur, pen, ops>>
    /\ UNCHANGED seqVars
    /\ UNCHANGED envVars

\* the sequencer's variables while only the rasterizer runs
SeqIdle ==
    /\ inputForm = "listOfLists"
    /\ inputLines = <<>>
    /\ inputData = <<>>
    /\ width = 0 /\ height = 0
    /\ screenSize = <<Columns, ScreenLines>>
    /\ blinkingCursor = 0
    /\ lastFrameDuration = 0
    /\ pc = "idle"
    /\ err = ""
    /\ nextFrameStartTimes = <<>>
    /\ i = 0
    /\ startTime = 0
    /\ endTime = 0
    /\ cursor = 0
    /\ cursorOptions = "empty"
    /\ clips = <<>>
    /\ fed = <<>>

\* a fresh pyte.Screen and no tty2img call made
RastIdle ==
    /\ buffer = FreshScreen.buffer
    /\ cur = FreshScreen.cur
    /\ pen = FreshScreen.pen
    /\ ops = 0
    /\ call = NoCall
    /\ image = <<>>

\* tty2img called directly on a screen the emulator has been fed
InitRaster ==
    /\ RastIdle
    /\ renderOptions = DefaultOptions
    /\ freetype \in BOOLEAN
    /\ SeqIdle

NextRaster ==
    \/ \E x \in 0..(Columns - 1), y \in 0..(ScreenLines - 1) : CursorTo(x, y)
    \/ \E ch \in Chars : Draw(ch)
    \/ \E p \in PenNames : SetPen(p)
    \/ ToggleCursor
    \/ \E sc \in BOOLEAN, ff \in FallbackLists, lf \in BOOLEAN :
          Render(sc, ff, lf)

SpecRaster == InitRaster /\ [][NextRaster]_vars

----------------------------------------------------------------------------
(* The frame sequencer: render_asciicast_frames *)

\* a slip: the last frame's end time without the last frame's timestamp
NextFrameStartTimesNoBase(data, last) ==
    [k \in 1..Len(data) |-> IF k < Len(data) THEN data[k + 1].t ELSE last]

\* list(zip(*inputData[1:], [inputData[-1][0] + lastFrameDuration]))[0]
NextFrameStartTimes(data, last) ==
    [k \in 1..Len(data) |->
        IF k < Len(data) THEN data[k + 1].t ELSE data[Len(data)].t + last]

\* blinkingCursor and (not screen.cursor.hidden)
Blinking == blinkingCursor # 0 /\ ~cur.hidden

\* a slip: every sub-image lasts the full blink value
BlinkDurationNoHalf(blink, c) == blink

\* duration of the sub-image whose cursor counter is c (true division by 2;
\* blink values are even)
BlinkDuration(blink, c) == IF c = 0 THEN blink \div 2 ELSE blink

\* {'showCursor': True} on even counters, {'showCursor': False} on odd ones
BlinkOptions(c) == IF c % 2 = 0 THEN "True" ELSE "False"

\* lines 59-60
Start ==
    /\ pc = "start"
    /\ IF Len(inputData) = 0
       THEN /\ pc' = "error"
            /\ err' = "IndexError"
            /\ UNCHANGED <<nextFrameStartTimes, i>>
       ELSE /\ nextFrameStartTimes' =
                   NextFrameStartTimes(inputData, lastFrameDuration)
            /\ i' = 1
            /\ pc' = "frame"
            /\ err' = err
    /\ UNCHANGED <<inputForm, inputLines, width, height, blinkingCursor,
                   lastFrameDuration, inputData, screenSize,
                   startTime, endTime, cursor, cursorOptions, clips, fed>>
    /\ UNCHANGED rastVars
    /\ UNCHANGED envVars

\* a slip: the frame's start time is carried over from the frame before
FeedFrameKeepsTime ==
    /\ pc = "frame"
    /\ startTime' = IF i = 1 THEN inputData[i].t ELSE startTime
    /\ endTime' = nextFrameStartTimes[i]
    /\ cursorOptions' = "empty"
    /\ cursor' = 0
    /\ FeedFollowed(Screen(buffer, cur, pen), screenSize, inputData[i].c)
    /\ LET scr == Feed(Screen(buffer, cur, pen), screenSize, inputData[i].c)
       IN /\ buffer' = scr.buffer
          /\ cur' = scr.cur
          /\ pen' = scr.pen
    /\ ops' = ops + Len(inputData[i].c)
    /\ fed' = Append(fed, i)
    /\ pc' = "loop"
    /\ UNCHANGED <<inputForm, inputLines, width, height, blinkingCursor,
                   lastFrameDuration, err, inputData, screenSize,
                   nextFrameStartTimes, i, clips>>
    /\ UNCHANGED <<call, image>>
    /\ UNCHANGED envVars

\* lines 61-66: next iteration of the for loop, up to the feed
FeedFrame ==
    /\ pc = "frame"
    /\ startTime' = inputData[i].t
    /\ endTime' = nextFrameStartTimes[i]
    /\ cursorOptions' = "empty"
    /\ cursor' = 0
    /\ FeedFollowed(Screen(buffer, cur, pen), screenSize, inputData[i].c)
    /\ LET scr == Feed(Screen(buffer, cur, pen), screenSize, inputData[i].c)
       IN /\ buffer' = scr.buffer
          /\ cur' = scr.cur
          /\ pen' = scr.pen
    /\ ops' = ops + Len(inputData[i].c)
    /\ fed' = Append(fed, i)
    /\ pc' = "loop"
    /\ UNCHANGED <<inputForm, inputLines, width, height, blinkingCursor,
                   lastFrameDuration, err, inputData, screenSize,
                   nextFrameStartTimes, i, clips>>
    /\ UNCHANGED <<call, image>>
    /\ UNCHANGED envVars

\* lines 67-86: one iteration of the while loop.  With a negative blink
\* value every pass takes startTime further below endTime; the first
\* MaxDiverge passes are followed, the code goes on making them.
SubFrame ==
    /\ pc = "loop"
    /\ startTime < endTime
    /\ (Blinking /\ blinkingCursor < 0) => cursor < MaxDiverge
    /\ LET duration == IF Blinking
                       THEN BlinkDuration(blinkingCursor, cursor)
                       ELSE endTime - startTime
           options  == IF Blinking THEN BlinkOptions(cursor) ELSE cursorOptions
       IN /\ startTime' = IF Blinking THEN startTime + duration ELSE endTime
          /\ cursorOptions' = options
          /\ cursor' = IF Blinking THEN cursor + 1 ELSE cursor
          /\ call' = CallArgs(options = "True", renderOptions, freetype)
          /\ image' = Tty2img(buffer, cur, call')
          /\ clips' = Append(clips, [frame      |-> i,
                                     sub        |-> cursor,
                                     start      |-> startTime,
                                     duration   |-> duration,
                                     showCursor |-> options,
                                     hidden     |-> cur.hidden,
                                     image      |-> image'])
    /\ UNCHANGED <<inputForm, inputLines, width, height, blinkingCursor,
                   lastFrameDuration, pc, err, inputData, screenSize,
                   nextFrameStartTimes, i, endTime, fed>>
    /\ UNCHANGED <<buffer, cur, pen, ops>>
    /\ UNCHANGED envVars

\* line 67 false, back to line 61: the while loop ends, the for loop goes on
EndFrame ==
    /\ pc = "loop"
    /\ ~(startTime < endTime)
    /\ i' = i + 1
    /\ pc' = IF i < Len(inputData) THEN "frame" ELSE "concat"
    /\ UNCHANGED <<inputForm, inputLines, width, height, blinkingCursor,
                   lastFrameDuration, err, inputData, screenSize,
                   nextFrameStartTimes, startTime, endTime, cursor,
                   cursorOptions, clips, fed>>
    /\ UNCHANGED rastVars
    /\ UNCHANGED envVars

\* line 88: mpy.concatenate_videoclips(clips), which takes max() over the
\* clips' sizes and so raises on an empty list
Concatenate ==
    /\ pc = "concat"
    /\ IF Len(clips) = 0
       THEN pc' = "error" /\ err' = "ValueError"
       ELSE pc' = "done" /\ err' = err
    /\ UNCHANGED <<inputForm, inputLines, width, height, blinkingCursor,
                   lastFrameDuration, inputData, screenSize,
                   nextFrameStartTimes, i, startTime, endTime, cursor,
                   cursorOptions, clips, fed>>
    /\ UNCHANGED rastVars
    /\ UNCHANGED envVars

SeqFresh ==
    /\ err = ""
    /\ nextFrameStartTimes = <<>>
    /\ i = 0
    /\ startTime = 0
    /\ endTime = 0
    /\ cursor = 0
    /\ cursorOptions = "empty"
    /\ clips = <<>>
    /\ fed = <<>>

\* render_asciicast_frames called with a list of frames and a fresh screen
Init ==
    /\ inputForm = "listOfLists"
    /\ inputData \in FrameLists
    /\ inputLines = inputData
    /\ width = Columns /\ height = ScreenLines
    /\ screenSize = <<Columns, ScreenLines>>
    /\ renderOptions = DefaultOptions
    /\ freetype = TRUE
    /\ blinkingCursor \in BlinkValues
    /\ lastFrameDuration \in LastFrameDurations
    /\ pc = "start"
    /\ SeqFresh
    /\ RastIdle

----------------------------------------------------------------------------
(* The input normaliser: asciicast2video *)

\* the four forms of inputData the docstring lists
Forms == {"path", "multiline", "listOfStrings", "listOfLists"}

\* the width / height arguments: not set, or set
ArgSizes == {0, 2}

\* the terminal size an asciicast header line carries
HeaderSettings == [width |-> 3, height |-> 2]

HeaderLine == [kind |-> "header", t |-> 0, c |-> <<>>]
FrameLine(f) == [kind |-> "frame", t |-> f.t, c |-> f.c]

\* the lines of an asciicast: an optional header, then one line per frame
Lines(hasHeader, frames) ==
    (IF hasHeader THEN <<HeaderLine>> ELSE <<>>) \o
    [k \in 1..Len(frames) |-> FrameLine(frames[k])]

\* line 139: not width or not height
NeedHeader(w, h) == w = 0 \/ h = 0

\* lines 142-144: json.loads(inputData.readline()), settings['width'],
\* settings['height']: "" when it succeeds, else the exception
ReadHeaderError(lines) ==
    CASE Len(lines) = 0             -> "JSONDecodeError"
      [] lines[1].kind # "header"   -> "TypeError"
      [] OTHER                      -> ""

\* lines 151-155: frame[0], frame[-1] of every remaining line; a header
\* line parses to a dictionary, which has no key 0
FramesError(lines) ==
    IF \E k \in 1..Len(lines) : lines[k].kind = "header"
    THEN "KeyError" ELSE ""

\* the frames of the lines up to the first line that raises
InputFrames(lines) ==
    [k \in 1..Len(lines) |-> [t |-> lines[k].t, c |-> lines[k].c]]

\* the lines before the first one whose frame[0] raises
BeforeError(lines) ==
    IF FramesError(lines) = "" THEN lines
    ELSE SubSeq(lines, 1,
                (CHOOSE k \in 1..Len(lines) :
                    /\ lines[k].kind = "header"
                    /\ \A j \in 1..(k - 1) : lines[j].kind # "header") - 1)

\* lines 132-160, up to the call of render_asciicast_frames: the header is
\* read when a size is missing (lines 139-144), the screen is created
\* (lines 147-148), then the remaining lines are turned into frames
\* (lines 151-155)
Asciicast2video ==
    /\ pc = "call"
    /\ LET need == NeedHeader(width, height)
           rest == IF need /\ Len(inputLines) > 0
                   THEN Tail(inputLines) ELSE inputLines
           early == CASE need /\ inputForm \in {"listOfStrings", "listOfLists"}
                            -> "BaseException"
                      [] need -> ReadHeaderError(inputLines)
                      [] OTHER -> ""
       IN IF early # ""
          THEN /\ pc' = "error"
               /\ err' = early
               /\ UNCHANGED <<inputData, screenSize>>
          ELSE /\ screenSize' =
                      IF need
                      THEN <<HeaderSettings.width, HeaderSettings.height>>
                      ELSE <<width, height>>
               /\ inputData' = InputFrames(BeforeError(rest))
               /\ IF FramesError(rest) # ""
                  THEN pc' = "error" /\ err' = FramesError(rest)
                  ELSE pc' = "start" /\ err' = err
    /\ UNCHANGED <<inputForm, inputLines, width, height, blinkingCursor,
                   lastFrameDuration, nextFrameStartTimes, i,
                   startTime, endTime, cursor, cursorOptions, clips, fed>>
    /\ UNCHANGED rastVars
    /\ UNCHANGED envVars

\* asciicast2video called with any input form, with or without a header
\* line, and any combination of the width and height arguments; a string is
\* taken for the asciicast itself only when it holds a newline (line 133),
\* so a multiline input has a line
InitA2V ==
    /\ inputForm \in Forms
    /\ \E hasHeader \in BOOLEAN, frames \in FrameLists :
          /\ inputForm = "listOfLists" => ~hasHeader
          /\ inputLines = Lines(hasHeader, frames)
          /\ inputForm = "multiline" => Len(inputLines) > 0
    /\ width \in ArgSizes
    /\ height \in ArgSizes
    /\ blinkingCursor \in {0, 2}
    /\ lastFrameDuration = 3
    /\ inputData = <<>>
    /\ screenSize = <<0, 0>>
    /\ renderOptions = DefaultOptions
    /\ freetype = TRUE
    /\ pc = "call"
    /\ SeqFresh
    /\ RastIdle

NextA2V ==
    \/ Asciicast2video
    \/ Start
    \/ FeedFrame
    \/ SubFrame
    \/ EndFrame
    \/ Concatenate

SpecA2V == InitA2V /\ [][NextA2V]_vars

Next ==
    \/ Start
    \/ FeedFrame
    \/ SubFrame
    \/ EndFrame
    \/ Concatenate

Spec == Init /\ [][Next]_vars

\* The sequencer is one sequential function: it keeps running while it can.
FairSpec == Spec /\ WF_vars(Next)

----------------------------------------------------------------------------
(* Properties of the frame sequencer *)

Finished == pc \in {"concat", "done"}
Terminated == pc \in {"done", "error"}

StrictlyIncreasing(s) == \A k \in 1..(Len(s) - 1) : s[k].t < s[k + 1].t

\* the time frame k is meant to stay on screen
Span(k) ==
    IF k < Len(inputData)
    THEN inputData[k + 1].t - inputData[k].t
    ELSE lastFrameDuration

\* the clips made for frame k, as indexes into clips
ClipsOf(k) == {j \in 1..Len(clips) : clips[j].frame = k}

RECURSIVE SumDurations(_, _)
SumDurations(cs, k) ==
    IF cs = <<>> THEN 0
    ELSE (IF Head(cs).frame = k THEN Head(cs).duration ELSE 0)
         + SumDurations(Tail(cs), k)

\* frame k's while loop has ended
FrameOver(k) == k < i \/ (k = i /\ pc = "loop" /\ ~(startTime < endTime))

\* C1: without a blink value, strictly increasing timestamps and a positive
\* last-frame duration give exactly one image per frame, in frame order,
\* lasting until the next frame's timestamp (the last one lastFrameDuration).
C1_SimpleDurations ==
    (/\ blinkingCursor = 0
     /\ Len(inputData) > 0
     /\ StrictlyIncreasing(inputData)
     /\ lastFrameDuration > 0
     /\ Finished)
    => /\ Len(clips) = Len(inputData)
       /\ \A k \in 1..Len(clips) :
            /\ clips[k].frame = k
            /\ clips[k].duration = Span(k)

C1_Witness ==
    /\ pc = "done"
    /\ blinkingCursor = 0
    /\ lastFrameDuration = 3
    /\ Len(inputData) = 3
    /\ [k \in 1..3 |-> inputData[k].t] = <<0, 1, 3>>
    /\ [k \in 1..Len(clips) |-> clips[k].duration] = <<1, 2, 3>>

\* C2: with a blink value and the cursor shown, the durations of a frame's
\* sub-images add up to exactly the frame's span.
C2_BlinkSumIsSpan ==
    \A k \in 1..Len(fed) :
        (/\ blinkingCursor # 0
         /\ FrameOver(k)
         /\ \A j \in ClipsOf(k) : ~clips[j].hidden)
        => SumDurations(clips, k) = Span(k)

\* C3: with a blink value and the cursor shown, a frame's sub-images
\* alternate shown / not shown starting with shown, the first lasts half the
\* blink value and the later ones the full value, each starts where the one
\* before ended, and they go on exactly until the frame's end time is reached.
C3_BlinkPattern ==
    blinkingCursor # 0 =>
    \A j \in 1..Len(clips) :
      LET c == clips[j]
          first == j = 1 \/ clips[j - 1].frame # c.frame
          last  == j = Len(clips) \/ clips[j + 1].frame # c.frame
      IN ~c.hidden =>
          /\ first => /\ c.showCursor = "True"
                      /\ 2 * c.duration = blinkingCursor
                      /\ c.start = inputData[c.frame].t
          /\ ~first => /\ c.showCursor # clips[j - 1].showCursor
                       /\ c.showCursor \in {"True", "False"}
                       /\ c.duration = blinkingCursor
                       /\ c.start = clips[j - 1].start + clips[j - 1].duration
          /\ c.start < inputData[c.frame].t + Span(c.frame)
          /\ (last /\ FrameOver(c.frame))
                => c.start + c.duration >= inputData[c.frame].t + Span(c.frame)

C3_Witness ==
    /\ pc = "done"
    /\ \E j \in 1..(Len(clips) - 2) :
        /\ clips[j].frame = clips[j + 2].frame
        /\ clips[j].sub = 0
        /\ ~clips[j].hidden
        /\ <<clips[j].showCursor, clips[j + 1].showCursor,
             clips[j + 2].showCursor>> = <<"True", "False", "True">>
        /\ clips[j + 1].duration = 2 * clips[j].duration

\* C4 as stated: with nondecreasing timestamps every frame is fed once, in
\* input order, and is rasterized at least once before the next frame is fed.
C4_EveryFrameRasterized ==
    /\ fed = [k \in 1..Len(fed) |-> k]
    /\ \A k \in 1..Len(fed) : FrameOver(k) => ClipsOf(k) # {}

\* C4 amended: every frame is fed once, in input order; a frame is rasterized
\* (after its feed and before the next feed) exactly when its span is
\* positive; a frame of span zero is fed and gets no image.
C4_PositiveSpanRasterized ==
    /\ fed = [k \in 1..Len(fed) |-> k]
    /\ Len(fed) <= Len(inputData)
    /\ Finished => Len(fed) = Len(inputData)
    /\ \A k \in 1..Len(fed) : FrameOver(k) => (ClipsOf(k) # {} <=> Span(k) > 0)
    /\ \A j \in 1..Len(clips) :
        /\ clips[j].frame \in 1..Len(fed)
        /\ j > 1 => clips[j - 1].frame <= clips[j].frame

C4_Witness ==
    /\ pc = "done"
    /\ Len(inputData) = 3
    /\ Span(1) > 0 /\ Span(2) = 0 /\ Span(3) > 0
    /\ ClipsOf(1) # {} /\ ClipsOf(2) = {} /\ ClipsOf(3) # {}

\* C10 as stated (the loop reaches the frame's end time): for every frame
\* list and every value of blinkingCursor and lastFrameDuration, each pass of
\* the subdivision loop brings startTime nearer to endTime, which is what
\* makes the loop, and with it render_asciicast_frames, end.
C10_LoopReachesEndTime ==
    [][(pc = "loop" /\ startTime < endTime)
          => (endTime - startTime' < endTime - startTime)]_vars

\* C10 as stated (its bound): the numbers of feed steps and of rasterize
\* steps are bounded by the length of the input.
C10_StepsBoundedByInput ==
    /\ Len(fed) <= Len(inputData)
    /\ Len(clips) <= Len(inputData)

\* C5: with width and height both set, header-bearing input (a path or a
\* multiline string) is converted with the given size, its header line is
\* not taken for a frame and its frames are the lines after the header.
C5_SizeOverridesHeader ==
    (/\ pc # "call"
     /\ inputForm \in {"path", "multiline"}
     /\ Len(inputLines) > 0
     /\ inputLines[1].kind = "header"
     /\ width # 0 /\ height # 0)
    => /\ err \notin {"KeyError", "TypeError", "JSONDecodeError", "BaseException"}
       /\ screenSize = <<width, height>>
       /\ inputData = InputFrames(Tail(inputLines))

----------------------------------------------------------------------------
(* Properties of the rasterizer *)

\* the cells the buffer holds, each with its line
BufferCells ==
    UNION { {[line |-> buffer[r].y, cell |-> buffer[r].cells[k]] :
                k \in 1..Len(buffer[r].cells)} : r \in 1..Len(buffer) }

\* the cells that hold a character
OccupiedCells == {c \in BufferCells : c.cell.data # ""}

\* the calls of one kind made for the cell at (line, col)
OpsFor(kind, line, col) ==
    {j \in 1..Len(image) :
        image[j].op = kind /\ image[j].line = line /\ image[j].col = col}

\* the cursor is to be displayed by the call made
CursorDisplayed == call.made /\ call.showCursor /\ ~cur.hidden

\* C6: when the cursor is displayed and its position holds no occupied cell,
\* a rectangle is drawn with its corner at the cursor's cell.
C6_CursorDrawnAtItsCell ==
    (/\ CursorDisplayed
     /\ cur.x < Columns
     /\ ~\E c \in OccupiedCells : c.line = cur.y /\ c.cell.x = cur.x)
    => \E j \in 1..Len(image) :
         /\ image[j].op = "cursor"
         /\ image[j].x = MarginSize + cur.x * CharWidth
         /\ image[j].y = MarginSize + cur.y * CharHeight

\* the extra widths of the cells drawn before call j on the same line
RECURSIVE ExtraBefore(_, _)
ExtraBefore(j, k) ==
    IF k >= j THEN 0
    ELSE (IF image[k].op = "text" /\ image[k].line = image[j].line
          THEN LET w == GlyphWidth(image[k].font, image[k].data) - CharWidth
               IN IF image[k].font \in {"F1-Regular.ttf", "F2-Regular.ttf"}
                     /\ w > 0
                  THEN w ELSE 0
          ELSE 0)
         + ExtraBefore(j, k + 1)

\* C9: the cells of a row are drawn from left to right, and the cell at
\* column c of row r is drawn at x = margin + c * charWidth + the extra
\* widths of the cells drawn before it in the row, y = margin + r * charHeight.
C9_CellDrawnAtItsColumn ==
    call.made =>
    \A j \in 1..Len(image) :
        image[j].op = "text" =>
          /\ image[j].x = MarginSize + image[j].col * CharWidth
                          + ExtraBefore(j, 1)
          /\ image[j].y = MarginSize + image[j].line * CharHeight
          /\ \A k \in 1..(j - 1) :
                (image[k].op = "text" /\ image[k].line = image[j].line)
                    => image[k].col < image[j].col

\* the positions, in the configured order, of the families that hold ch
Holding(ch) ==
    {k \in 1..Len(call.fallbackFonts) : Fclist(call.fallbackFonts[k], ch) # <<>>}

FilesOf(fname, ch) ==
    {Fclist(fname, ch)[k] : k \in 1..Len(Fclist(fname, ch))}

\* C7: with glyph checking available and a logging callback, a cell whose
\* font lacks its character is drawn with a font of the first configured
\* family that holds the character and nothing is logged for it; when no
\* configured family holds it, exactly one line is logged for the cell; in
\* both cases the cell's text is still drawn, as is every other cell's.
C7_FallbackOrLogOnce ==
    (call.made /\ call.freetype /\ call.logFunction) =>
    \A c \in OccupiedCells :
      LET ch    == c.cell.data
          texts == OpsFor("text", c.line, c.cell.x)
          logs  == OpsFor("log", c.line, c.cell.x)
      IN /\ Cardinality(texts) = 1
         /\ ~HasGlyph(SelectFont(PenAttrs(c.cell.pen)), ch) =>
              IF Holding(ch) # {}
              THEN /\ logs = {}
                   /\ \E k \in Holding(ch) :
                        /\ \A m \in Holding(ch) : k <= m
                        /\ \A j \in texts :
                             image[j].font
                                \in FilesOf(call.fallbackFonts[k], ch)
              ELSE Cardinality(logs) = 1
         /\ HasGlyph(SelectFont(PenAttrs(c.cell.pen)), ch) => logs = {}

C7_Witness ==
    /\ call.made /\ call.freetype /\ call.logFunction
    /\ call.fallbackFonts = <<"F1", "F2">>
    /\ \E c \in OccupiedCells :
         /\ c.cell.data = "W"
         /\ \E j \in OpsFor("text", c.line, c.cell.x) :
               image[j].font = "F1-Regular.ttf"
    /\ \E c \in OccupiedCells :
         /\ c.cell.data = "?"
         /\ Cardinality(OpsFor("log", c.line, c.cell.x)) = 1
         /\ Cardinality(OpsFor("text", c.line, c.cell.x)) = 1

\* the colour a cell starts from: its own, or the default
OwnFg(attrs) == IF attrs.fg = "default" THEN FgDefaultColor ELSE attrs.fg
OwnBg(attrs) == IF attrs.bg = "default" THEN BgDefaultColor ELSE attrs.bg

UnderCursor(c) == CursorDisplayed /\ c.line = cur.y /\ c.cell.x = cur.x

\* C8: a cell is drawn with its own colours (the defaults for 'default'),
\* swapped when exactly one of "reverse video" and "under the displayed
\* cursor" holds; a reverse cell under the displayed cursor keeps its own
\* foreground and background.
C8_ReverseCancelsCursor ==
    call.made =>
    \A c \in OccupiedCells :
      LET attrs   == PenAttrs(c.cell.pen)
          swapped == attrs.reverse # UnderCursor(c)
          fg      == ConvertColor(IF swapped THEN OwnBg(attrs) ELSE OwnFg(attrs))
          bg      == ConvertColor(IF swapped THEN OwnFg(attrs) ELSE OwnBg(attrs))
      IN /\ \A j \in OpsFor("text", c.line, c.cell.x) : image[j].fill = fg
         /\ OpsFor("text", c.line, c.cell.x) # {}
         /\ \A j \in OpsFor("background", c.line, c.cell.x) : image[j].fill = bg
         /\ (OpsFor("background", c.line, c.cell.x) # {}) <=> (bg # BgDefaultColor)

C8_Witness ==
    /\ CursorDisplayed
    /\ \E c \in OccupiedCells :
         /\ UnderCursor(c)
         /\ c.cell.pen = "colourReverse"
         /\ \E j \in OpsFor("text", c.line, c.cell.x) : image[j].fill = "red"
         /\ \E j \in OpsFor("background", c.line, c.cell.x) :
               image[j].fill = "#0000ee"

====
